---- MODULE Spec2Model ----
(***************************************************************************)
(* Model of the kube-foundry core: the Dynamo provider's manifest          *)
(* generation, status parsing, config validation and installation check    *)
(* (backend/src/providers/dynamo/index.ts), the deployments route's        *)
(* cross-namespace listing and create request (routes/deployments), the    *)
(* status codes of cluster errors (backend/src/lib/k8s-errors.ts) and the  *)
(* deployment form (frontend/src/components/deployments/DeploymentForm)    *)
(***************************************************************************)
EXTENDS Integers, Sequences, FiniteSets, TLC

VARIABLES
    config,      \* the DeploymentConfig handed to generateManifest
    manifest,    \* the manifest returned by generateManifest
    status,      \* the DeploymentStatus returned by parseStatus
    pc,          \* position of the generate/parse pipeline
    cluster,     \* per namespace: the creation times of the deployments stored there
    reachable,   \* per namespace: whether the cluster query for it succeeds
    query,       \* the validated query of the GET / request in flight
    queried,     \* the namespaces the request queries, in the order of the promise array
    results,     \* per namespace: the promise of listDeployments for it
    response,    \* the JSON body answered by GET /
    lpc,         \* position of the GET / handler
    resource,    \* a custom resource read from the cluster
    parsed,      \* the DeploymentStatus parseStatus returns for resource
    ppc,         \* position of the parse of resource
    crdCall,     \* outcome of checkInstallation's custom-resource list call
    podsCall,    \* outcome of checkInstallation's operator pod list call
    crdFound,    \* checkInstallation's local crdFound
    operatorRunning, \* checkInstallation's local operatorRunning
    installation, \* the InstallationStatus checkInstallation returns
    ipc,         \* position of checkInstallation
    body,        \* the JSON body of the POST / request in flight
    validation,  \* the result of provider.validateConfig(body)
    calls,       \* the cluster calls POST / has issued, in order
    gpuCheck,    \* how the GPU fit check of POST / ended
    gpuWarnings, \* whether the GPU fit check left warnings
    clientCall,  \* how the cluster client's create call settled
    created,     \* how kubernetesService.createDeployment settled
    reply,       \* what POST / answers: a JSON response or a thrown exception
    cpc,         \* position of the POST / handler
    runtimes,    \* DeploymentForm's runtimes prop: per runtime, listed and installed or not
    formModel,   \* DeploymentForm's model prop
    needsHfAuth, \* the model is gated and HuggingFace is not configured
    selectedRuntime, \* DeploymentForm's selectedRuntime state
    formConfig,  \* DeploymentForm's config state
    prevConfig,  \* config before the latest state update
    ggufFile,    \* DeploymentForm's ggufFile state
    selectedPremadeModel, \* whether a premade model is selected
    isProcessing, \* createDeployment.isProcessing
    requests,    \* the create requests the form has issued
    fpc          \* whether the form is mounted

vars == <<config, manifest, status, pc, cluster, reachable, query, queried, results, response, lpc,
          resource, parsed, ppc,
          crdCall, podsCall, crdFound, operatorRunning, installation, ipc,
          body, validation, calls, gpuCheck, gpuWarnings, clientCall, created, reply, cpc,
          runtimes, formModel, needsHfAuth, selectedRuntime, formConfig, prevConfig, ggufFile,
          selectedPremadeModel, isProcessing, requests, fpc>>

manifestVars == <<config, manifest, status, pc>>
listVars == <<cluster, reachable, query, queried, results, response, lpc>>
parseVars == <<resource, parsed, ppc>>
installVars == <<crdCall, podsCall, crdFound, operatorRunning, installation, ipc>>
createVars == <<body, validation, calls, gpuCheck, gpuWarnings, clientCall, created, reply, cpc>>
formVars == <<runtimes, formModel, needsHfAuth, selectedRuntime, formConfig, prevConfig, ggufFile,
              selectedPremadeModel, isProcessing, requests, fpc>>

----------------------------------------------------------------------------
(* JavaScript values.  Every scalar or nested value stored under a key of  *)
(* a generated spec is a record of one shape, so that values of different  *)
(* JavaScript types can be compared.                                       *)

Undefined == [t |-> "undefined", n |-> 0, s |-> ""]
Num(n) == [t |-> "number", n |-> n, s |-> ""]
Str(s) == [t |-> "string", n |-> 0, s |-> s]
Bool(b) == [t |-> "boolean", n |-> IF b THEN 1 ELSE 0, s |-> ""]
\* resources: { limits: { 'nvidia.com/gpu': gpu, memory? } }; mem = "" is "no memory key"
Limits(gpu, mem) == [t |-> "limits", n |-> gpu, s |-> mem]
\* envFrom: [ { secretRef: { name } } ]
EnvFrom(secret) == [t |-> "envFrom", n |-> 0, s |-> secret]

\* JavaScript truthiness, as used by `if (x)`, `x || y` and `x && y`
Truthy(v) ==
    CASE v.t = "undefined" -> FALSE
      [] v.t = "number" -> v.n # 0
      [] v.t = "string" -> v.s # ""
      [] v.t = "boolean" -> v.n = 1
      [] OTHER -> TRUE

\* a || b
JsOrKeepsLeft(a, b) == a
JsOr(a, b) == IF Truthy(a) THEN a ELSE b

\* String(v) for the operands of +
JsToString(v) ==
    CASE v.t = "number" -> ToString(v.n)
      [] v.t = "string" -> v.s
      [] v.t = "boolean" -> IF v.n = 1 THEN "true" ELSE "false"
      [] v.t = "undefined" -> "undefined"
      [] OTHER -> "[object Object]"

\* a + b: numeric addition of numbers and booleans, concatenation otherwise
JsAdd(a, b) ==
    IF a.t \in {"number", "boolean"} /\ b.t \in {"number", "boolean"}
    THEN Num(a.n + b.n)
    ELSE Str(JsToString(a) \o JsToString(b))

\* JavaScript objects are functions from their own keys
EmptyObj == <<>>
Has(obj, k) == k \in DOMAIN obj
Get(obj, k) == IF k \in DOMAIN obj THEN obj[k] ELSE Undefined
\* obj[k] = v
Put(obj, k, v) == (k :> v) @@ obj
\* { ...a, ...b }
Spread(a, b) == b @@ a

----------------------------------------------------------------------------
(* Bounds of the configuration space *)

MaxReplicas == 2
MaxGpus == 2

Engines == {"vllm", "sglang", "trtllm", "llamacpp"}
Modes == {"aggregated", "disaggregated"}
RouterModes == {"none", "kv", "round-robin"}

\* keys a user may pass through engineArgs: every key the generator itself
\* writes on a worker spec, and one key it never writes
ArgKeys == {"replicas", "model-path", "resources", "enforce-eager", "max-model-len",
            "is-prefill-worker", "disaggregation-mode", "gpu-memory-utilization"}
ArgValues == {Num(7), Str("decode")}

\* engineArgs: absent/empty, or one entry
EngineArgsSpace == {EmptyObj} \cup {k :> v : k \in ArgKeys, v \in ArgValues}

\* resources is optional; memory is optional inside it ("" = absent)
NoResources == [present |-> FALSE, gpu |-> 0, memory |-> ""]
ResourcesSpace ==
    {NoResources} \cup
    {[present |-> TRUE, gpu |-> g, memory |-> IF g = 0 THEN "" ELSE "8Gi"] : g \in 0..(MaxGpus - 1)}

\* the fields that select the shape of the manifest: always fully crossed
ShapeSpace ==
    [name : {"qwen-test"},
     namespace : {"dynamo-system"},
     modelId : {"Qwen/Qwen3-0.6B"},
     servedModelName : {""},
     hfTokenSecret : {"hf-token-secret"},
     engine : Engines,
     mode : Modes,
     engineArgs : EngineArgsSpace]

RouterSpace == [routerMode : RouterModes]
DefaultRouter == [routerMode |-> "none"]

FlagSpace ==
    [enforceEager : BOOLEAN,
     enablePrefixCaching : BOOLEAN,
     trustRemoteCode : BOOLEAN,
     contextLength : {0, 4096}]
DefaultFlags ==
    [enforceEager |-> TRUE, enablePrefixCaching |-> FALSE, trustRemoteCode |-> FALSE,
     contextLength |-> 0]

\* sizing of an aggregated config: replicas and resources vary
AggregatedSizing ==
    [replicas : 1..MaxReplicas,
     resources : ResourcesSpace,
     prefillReplicas : {1}, decodeReplicas : {1}, prefillGpus : {1}, decodeGpus : {1}]

\* sizing of a disaggregated config: the prefill/decode fields and the memory vary
DisaggregatedSizing ==
    [replicas : {1},
     resources : {r \in ResourcesSpace : r.gpu = 0 \/ r.memory # ""},
     prefillReplicas : 1..MaxReplicas, decodeReplicas : 1..MaxReplicas,
     prefillGpus : 1..MaxGpus, decodeGpus : 1..MaxGpus]

SizingSpace(mode) == IF mode = "disaggregated" THEN DisaggregatedSizing ELSE AggregatedSizing
DefaultSizing ==
    [replicas |-> 1, resources |-> [present |-> TRUE, gpu |-> 0, memory |-> ""],
     prefillReplicas |-> 1, decodeReplicas |-> 1, prefillGpus |-> 1, decodeGpus |-> 1]

\* the validated DeploymentConfig values handed to generateManifest: every
\* engine, mode and engineArgs, with the router mode, the flags or the sizing
\* varied around the defaults of the deployment form
ConfigSpace ==
    UNION {
        {c @@ r @@ DefaultFlags @@ DefaultSizing : r \in RouterSpace}
        \cup {c @@ DefaultRouter @@ f @@ DefaultSizing : f \in FlagSpace}
        \cup {c @@ DefaultRouter @@ DefaultFlags @@ z : z \in SizingSpace(c.mode)}
        : c \in ShapeSpace}

----------------------------------------------------------------------------
(* DynamoProvider.generateManifest *)

API_GROUP == "dynamo.nvidia.com"
API_VERSION == "v1alpha1"
CRD_KIND == "DynamoGraphDeployment"

\* resources.limits of a worker: the memory key only when memory is truthy
ResourceLimits(gpu, memory) == Limits(gpu, memory)

\* Object.entries(config.engineArgs).forEach(([key, value]) => baseSpec[key] = value)
MergeEngineArgs(baseSpec, engineArgs) == Spread(baseSpec, engineArgs)

\* variant: enforce-eager is written whatever the flag is
AddCommonOptionsAlwaysEager(baseSpec, c) ==
    LET s1 == Put(baseSpec, "enforce-eager", Bool(c.enforceEager))
        s2 == IF c.enablePrefixCaching THEN Put(s1, "enable-prefix-caching", Bool(TRUE)) ELSE s1
        s3 == IF c.trustRemoteCode THEN Put(s2, "trust-remote-code", Bool(TRUE)) ELSE s2
        s4 == IF c.contextLength # 0 THEN Put(s3, "max-model-len", Num(c.contextLength)) ELSE s3
    IN s4

\* the "common options" block shared by both worker generators
AddCommonOptions(baseSpec, c) ==
    LET s1 == IF c.enforceEager THEN Put(baseSpec, "enforce-eager", Bool(TRUE)) ELSE baseSpec
        s2 == IF c.enablePrefixCaching THEN Put(s1, "enable-prefix-caching", Bool(TRUE)) ELSE s1
        s3 == IF c.trustRemoteCode THEN Put(s2, "trust-remote-code", Bool(TRUE)) ELSE s2
        s4 == IF c.contextLength # 0 THEN Put(s3, "max-model-len", Num(c.contextLength)) ELSE s3
    IN s4

ServedModelName(c) == IF c.servedModelName # "" THEN c.servedModelName ELSE c.modelId

\* variant: the router mode is taken from the config without the upgrade
generateFrontendSpecNoUpgrade(c) ==
    LET spec == ("replicas" :> Num(1)) @@ ("http-port" :> Num(8000))
    IN IF c.routerMode # "none" THEN Put(spec, "router-mode", Str(c.routerMode)) ELSE spec

\* variant: router-mode is written whatever the mode is
generateFrontendSpecAlwaysRouter(c) ==
    LET spec == ("replicas" :> Num(1)) @@ ("http-port" :> Num(8000))
        routerMode == IF c.mode = "disaggregated" /\ c.routerMode = "none"
                      THEN "round-robin"
                      ELSE c.routerMode
    IN Put(spec, "router-mode", Str(routerMode))

generateFrontendSpec(c) ==
    LET spec == ("replicas" :> Num(1)) @@ ("http-port" :> Num(8000))
        routerMode == IF c.mode = "disaggregated" /\ c.routerMode = "none"
                      THEN "round-robin"
                      ELSE c.routerMode
    IN IF routerMode # "none" THEN Put(spec, "router-mode", Str(routerMode)) ELSE spec

AggregatedWorkerKey(engine) ==
    CASE engine = "vllm" -> "VllmWorker"
      [] engine = "sglang" -> "SglangWorker"
      [] engine = "trtllm" -> "TrtllmWorker"
      [] OTHER -> "VllmWorker"

generateWorkerSpec(c) ==
    LET base == ("model-path" :> Str(c.modelId))
                @@ ("served-model-name" :> Str(ServedModelName(c)))
                @@ ("replicas" :> Num(c.replicas))
                @@ ("envFrom" :> EnvFrom(c.hfTokenSecret))
        opts == AddCommonOptions(base, c)
        res == IF c.resources.present
               THEN Put(opts, "resources", ResourceLimits(c.resources.gpu, c.resources.memory))
               ELSE opts
        baseSpec == MergeEngineArgs(res, c.engineArgs)
    IN AggregatedWorkerKey(c.engine) :> baseSpec

\* variant: the role does not select the key
DisaggregatedWorkerKeyOneRole(engine, role) ==
    CASE engine = "vllm" -> "VllmPrefillWorker"
      [] engine = "sglang" -> "SglangPrefillWorker"
      [] engine = "trtllm" -> "TrtllmPrefillWorker"
      [] OTHER -> "VllmPrefillWorker"

DisaggregatedWorkerKey(engine, role) ==
    LET suffix == IF role = "prefill" THEN "PrefillWorker" ELSE "DecodeWorker"
    IN CASE engine = "vllm" -> "Vllm" \o suffix
         [] engine = "sglang" -> "Sglang" \o suffix
         [] engine = "trtllm" -> "Trtllm" \o suffix
         [] OTHER -> "Vllm" \o suffix

\* variant: the vLLM flag is written for both roles
AddDisaggregationFlagsBothRoles(baseSpec, engine, role) ==
    CASE engine = "sglang" -> Put(baseSpec, "disaggregation-mode", Str(role))
      [] engine = "trtllm" -> Put(baseSpec, "disaggregation-mode", Str(role))
      [] OTHER -> Put(baseSpec, "is-prefill-worker", Bool(TRUE))

\* the switch at the end of generateDisaggregatedWorkerSpec: written after the
\* engineArgs merge
AddDisaggregationFlags(baseSpec, engine, role) ==
    CASE engine = "sglang" -> Put(baseSpec, "disaggregation-mode", Str(role))
      [] engine = "trtllm" -> Put(baseSpec, "disaggregation-mode", Str(role))
      [] OTHER -> IF role = "prefill"
                  THEN Put(baseSpec, "is-prefill-worker", Bool(TRUE))
                  ELSE baseSpec

\* variant: the decode worker is sized with the prefill count
RoleReplicasPrefillOnly(c, isPrefill) ==
    IF c.prefillReplicas # 0 THEN c.prefillReplicas ELSE 1

\* isPrefill ? (config.prefillReplicas || 1) : (config.decodeReplicas || 1)
RoleReplicas(c, isPrefill) ==
    IF isPrefill
    THEN (IF c.prefillReplicas # 0 THEN c.prefillReplicas ELSE 1)
    ELSE (IF c.decodeReplicas # 0 THEN c.decodeReplicas ELSE 1)

\* variant: the decode worker gets the prefill GPU count
RoleGpusPrefillOnly(c, isPrefill) ==
    IF c.prefillGpus # 0 THEN c.prefillGpus ELSE 1

\* isPrefill ? (config.prefillGpus || 1) : (config.decodeGpus || 1)
RoleGpus(c, isPrefill) ==
    IF isPrefill
    THEN (IF c.prefillGpus # 0 THEN c.prefillGpus ELSE 1)
    ELSE (IF c.decodeGpus # 0 THEN c.decodeGpus ELSE 1)

generateDisaggregatedWorkerSpec(c, role) ==
    LET isPrefill == role = "prefill"
        replicas == RoleReplicas(c, isPrefill)
        gpus == RoleGpus(c, isPrefill)
        base == ("model-path" :> Str(c.modelId))
                @@ ("served-model-name" :> Str(ServedModelName(c)))
                @@ ("replicas" :> Num(replicas))
                @@ ("envFrom" :> EnvFrom(c.hfTokenSecret))
                @@ ("resources" :> ResourceLimits(gpus, c.resources.memory))
        opts == AddCommonOptions(base, c)
        merged == MergeEngineArgs(opts, c.engineArgs)
        baseSpec == AddDisaggregationFlags(merged, c.engine, role)
    IN DisaggregatedWorkerKey(c.engine, role) :> baseSpec

ManifestEnvelope(c, spec) ==
    [apiVersion |-> API_GROUP \o "/" \o API_VERSION,
     kind |-> CRD_KIND,
     metadata |-> [name |-> c.name, namespace |-> c.namespace,
                   labels |-> [appName |-> "kubefoundry", instance |-> c.name,
                               managedBy |-> "kubefoundry"]],
     spec |-> spec]

generateAggregatedManifest(c) ==
    LET workerSpec == generateWorkerSpec(c)
        frontendSpec == generateFrontendSpec(c)
    IN ManifestEnvelope(c, Spread("Frontend" :> frontendSpec, workerSpec))

generateDisaggregatedManifest(c) ==
    LET frontendSpec == generateFrontendSpec(c)
        prefillWorkerSpec == generateDisaggregatedWorkerSpec(c, "prefill")
        decodeWorkerSpec == generateDisaggregatedWorkerSpec(c, "decode")
    IN ManifestEnvelope(c, Spread(Spread("Frontend" :> frontendSpec, prefillWorkerSpec),
                                  decodeWorkerSpec))

generateManifest(c) ==
    IF c.mode = "disaggregated"
    THEN generateDisaggregatedManifest(c)
    ELSE generateAggregatedManifest(c)

----------------------------------------------------------------------------
(* Timestamps.  An ISO-8601 timestamp is a (day, tick-of-day) pair; getTime *)
(* converts it to a number of ticks since the epoch.                        *)

MaxDay == 2
TicksPerDay == 2

TimeSpace == [d : 1..MaxDay, t : 0..(TicksPerDay - 1)]
\* an absent creationTimestamp
NoTime == [d |-> 0, t |-> 0]
\* the wall-clock times at which a status is parsed
NowSpace == {ts \in TimeSpace : ts.d = MaxDay /\ ts.t = 0}
\* new Date(iso).getTime()
GetTime(iso) == iso.d * TicksPerDay + iso.t

----------------------------------------------------------------------------
(* DynamoProvider.parseStatus *)

\* obj.status || {}: every field of the status sub-object read through ?. and ||
EmptyStatus ==
    [phase |-> Undefined,
     desired |-> Undefined, ready |-> Undefined, available |-> Undefined,
     prefillDesired |-> Undefined, prefillReady |-> Undefined,
     decodeDesired |-> Undefined, decodeReady |-> Undefined,
     conditions |-> <<>>]

\* obj.metadata with every field absent
EmptyMetadata == [name |-> Undefined, namespace |-> Undefined, creationTimestamp |-> NoTime]

\* the custom resource read back for a manifest: the manifest's metadata and
\* spec, no creationTimestamp, and the given status sub-object
RawResource(m, st) ==
    [metadata |-> [name |-> Str(m.metadata.name), namespace |-> Str(m.metadata.namespace),
                   creationTimestamp |-> NoTime],
     spec |-> m.spec,
     status |-> st]

\* spec.X?. : the worker object under key k, or an object without keys
Worker(spec, k) == IF Has(spec, k) THEN spec[k] ELSE EmptyObj

\* the if/else-if chain over the worker keys of spec
DetectWorkers(spec) ==
    LET disagg(e, p, d) ==
            LET prefillDesired == JsOr(Get(Worker(spec, p), "replicas"), Num(0))
                decodeDesired == JsOr(Get(Worker(spec, d), "replicas"), Num(0))
            IN [engine |-> e, mode |-> "disaggregated",
                modelId |-> JsOr(Get(Worker(spec, p), "model-path"),
                                 JsOr(Get(Worker(spec, d), "model-path"), Str(""))),
                prefillDesired |-> prefillDesired,
                decodeDesired |-> decodeDesired,
                desiredReplicas |-> JsAdd(prefillDesired, decodeDesired)]
        agg(e, k) ==
            [engine |-> e, mode |-> "aggregated",
             modelId |-> JsOr(Get(spec[k], "model-path"), Str("")),
             prefillDesired |-> Num(0),
             decodeDesired |-> Num(0),
             desiredReplicas |-> JsOr(Get(spec[k], "replicas"), Num(1))]
    IN CASE Has(spec, "VllmPrefillWorker") \/ Has(spec, "VllmDecodeWorker") ->
              disagg("vllm", "VllmPrefillWorker", "VllmDecodeWorker")
         [] Has(spec, "SglangPrefillWorker") \/ Has(spec, "SglangDecodeWorker") ->
              disagg("sglang", "SglangPrefillWorker", "SglangDecodeWorker")
         [] Has(spec, "TrtllmPrefillWorker") \/ Has(spec, "TrtllmDecodeWorker") ->
              disagg("trtllm", "TrtllmPrefillWorker", "TrtllmDecodeWorker")
         [] Has(spec, "VllmWorker") -> agg("vllm", "VllmWorker")
         [] Has(spec, "SglangWorker") -> agg("sglang", "SglangWorker")
         [] Has(spec, "TrtllmWorker") -> agg("trtllm", "TrtllmWorker")
         [] OTHER -> [engine |-> "vllm", mode |-> "aggregated", modelId |-> Str(""),
                      prefillDesired |-> Num(0), decodeDesired |-> Num(0),
                      desiredReplicas |-> Num(1)]

\* (status.conditions || []).map(...)
MapConditionNoDefaults(c) ==
    [type |-> c.type,
     status |-> c.status,
     reason |-> c.reason,
     message |-> c.message,
     lastTransitionTime |-> c.lastTransitionTime]
MapCondition(c) ==
    [type |-> JsOr(c.type, Str("")),
     status |-> JsOr(c.status, Str("Unknown")),
     reason |-> c.reason,
     message |-> c.message,
     lastTransitionTime |-> c.lastTransitionTime]

\* parseStatus(raw), evaluated at wall-clock time now
parseStatus(raw, now) ==
    LET spec == raw.spec
        st == raw.status
        w == DetectWorkers(spec)
        disaggregated == w.mode = "disaggregated"
    IN [name |-> JsOr(raw.metadata.name, Str("unknown")),
        namespace |-> JsOr(raw.metadata.namespace, Str("default")),
        modelId |-> w.modelId,
        engine |-> w.engine,
        mode |-> w.mode,
        phase |-> JsOr(st.phase, Str("Pending")),
        replicas |-> [desired |-> JsOr(st.desired, w.desiredReplicas),
                      ready |-> JsOr(st.ready, Num(0)),
                      available |-> JsOr(st.available, Num(0))],
        conditions |-> [i \in DOMAIN st.conditions |-> MapCondition(st.conditions[i])],
        pods |-> <<>>,
        createdAt |-> IF raw.metadata.creationTimestamp # NoTime
                      THEN raw.metadata.creationTimestamp
                      ELSE now,
        frontendService |-> JsToString(raw.metadata.name) \o "-frontend",
        \* prefillReplicas / decodeReplicas are set only in disaggregated mode
        hasRoleReplicas |-> disaggregated,
        prefillReplicas |-> IF disaggregated
                            THEN [desired |-> JsOr(st.prefillDesired, w.prefillDesired),
                                  ready |-> JsOr(st.prefillReady, Num(0))]
                            ELSE [desired |-> Undefined, ready |-> Undefined],
        decodeReplicas |-> IF disaggregated
                           THEN [desired |-> JsOr(st.decodeDesired, w.decodeDesired),
                                 ready |-> JsOr(st.decodeReady, Num(0))]
                           ELSE [desired |-> Undefined, ready |-> Undefined]]

----------------------------------------------------------------------------
(* GET /api/deployments *)

MaxDeployments == 2
MaxLimit == 2
MaxOffset == 1

\* providerRegistry.listProviderIds(), in registration order, and each
\* provider's defaultNamespace
ProviderIds == <<"dynamo", "kuberay", "kaito">>
DefaultNamespace(id) ==
    CASE id = "dynamo" -> "dynamo-system"
      [] id = "kuberay" -> "kuberay-system"
      [] id = "kaito" -> "kaito-workspace"

Namespaces == {DefaultNamespace(ProviderIds[i]) : i \in DOMAIN ProviderIds}

\* an absent query parameter
NoNamespace == ""
NoNumber == -1

SeqsUpTo(S, n) == UNION {[1..k -> S] : k \in 0..n}

RECURSIVE SumLen(_, _)
SumLen(f, D) ==
    IF D = {} THEN 0
    ELSE LET x == CHOOSE y \in D : TRUE IN Len(f[x]) + SumLen(f, D \ {x})

\* the cluster contents: per namespace the deployments in the order the
\* cluster lists them, each with its creationTimestamp
ClusterSpace ==
    {f \in [Namespaces -> SeqsUpTo(TimeSpace, MaxDeployments)] :
        SumLen(f, Namespaces) <= MaxDeployments}

\* at most one namespace is unreachable
ReachableSpace ==
    {f \in [Namespaces -> BOOLEAN] : Cardinality({n \in Namespaces : ~f[n]}) <= 1}

\* the values listDeploymentsQuerySchema lets through
QuerySpace ==
    [namespace : {NoNamespace, DefaultNamespace(ProviderIds[1])},
     limit : {NoNumber} \cup 1..MaxLimit,
     offset : {NoNumber} \cup 0..MaxOffset]

\* kubernetesService.listDeployments(ns) when it succeeds: the parsed status
\* of every deployment of the namespace, in cluster order
ListDeployments(ns) ==
    [i \in DOMAIN cluster[ns] |->
        [name |-> ns \o "/" \o ToString(i), namespace |-> ns, createdAt |-> cluster[ns][i]]]

\* [...new Set(providerNamespaces)]: first occurrences, in order
RECURSIVE Unique(_)
Unique(seq) ==
    IF seq = <<>> THEN <<>>
    ELSE LET init == Unique(SubSeq(seq, 1, Len(seq) - 1))
             last == seq[Len(seq)]
         IN IF \E i \in DOMAIN init : init[i] = last THEN init ELSE Append(init, last)

UniqueNamespaces == Unique([i \in DOMAIN ProviderIds |-> DefaultNamespace(ProviderIds[i])])

\* variant: dateA - dateB
CompareCreatedAtAscending(a, b) == GetTime(a.createdAt) - GetTime(b.createdAt)

\* the comparator of deploymentsList.sort: dateB - dateA
CompareCreatedAt(a, b) == GetTime(b.createdAt) - GetTime(a.createdAt)

\* Array.prototype.sort is stable: x goes after every element that does not
\* compare greater than it
RECURSIVE InsertSorted(_, _)
InsertSorted(sorted, x) ==
    IF sorted = <<>> THEN <<x>>
    ELSE IF CompareCreatedAt(sorted[Len(sorted)], x) <= 0
         THEN Append(sorted, x)
         ELSE Append(InsertSorted(SubSeq(sorted, 1, Len(sorted) - 1), x), sorted[Len(sorted)])

RECURSIVE SortByCreatedAt(_)
SortByCreatedAt(list) ==
    IF list = <<>> THEN <<>>
    ELSE InsertSorted(SortByCreatedAt(SubSeq(list, 1, Len(list) - 1)), list[Len(list)])

\* for (const result of results) deploymentsList.push(...result)
RECURSIVE Flatten(_, _)
Flatten(order, res) ==
    IF order = <<>> THEN <<>>
    ELSE Flatten(SubSeq(order, 1, Len(order) - 1), res) \o res[order[Len(order)]].value

\* deploymentsList.slice(start, end)
Slice(list, start, end) ==
    LET lo == IF start > Len(list) THEN Len(list) ELSE start
        hi == IF end > Len(list) THEN Len(list) ELSE end
    IN SubSeq(list, lo + 1, hi)

\* variant: slice(start, limit)
PaginateEndIsLimit(list, limit, offset) ==
    LET total == Len(list)
        start == IF offset # NoNumber THEN offset ELSE 0
        end == IF limit # NoNumber THEN limit ELSE total
        page == IF offset # NoNumber \/ limit # NoNumber
                THEN Slice(list, start, end)
                ELSE list
    IN [deployments |-> page,
        pagination |-> [total |-> total,
                        limit |-> IF limit # NoNumber THEN limit ELSE total,
                        offset |-> start,
                        hasMore |-> start + Len(page) < total]]

\* the pagination block and the JSON body
Paginate(list, limit, offset) ==
    LET total == Len(list)
        start == IF offset # NoNumber THEN offset ELSE 0
        end == IF limit # NoNumber THEN start + limit ELSE total
        page == IF offset # NoNumber \/ limit # NoNumber
                THEN Slice(list, start, end)
                ELSE list
    IN [deployments |-> page,
        pagination |-> [total |-> total,
                        limit |-> IF limit # NoNumber THEN limit ELSE total,
                        offset |-> start,
                        hasMore |-> start + Len(page) < total]]

\* the body answered from the catch block
ErrorBody ==
    [deployments |-> <<>>,
     pagination |-> [total |-> 0, limit |-> 0, offset |-> 0, hasMore |-> FALSE]]

NoPromise == [state |-> "none", value |-> <<>>]
NoQuery == [namespace |-> NoNamespace, limit |-> NoNumber, offset |-> NoNumber]
NoBody == [deployments |-> <<>>,
           pagination |-> [total |-> -1, limit |-> -1, offset |-> -1, hasMore |-> FALSE]]

\* the request arrives: the handler reads the query and starts one
\* listDeployments call per namespace it queries
ListRequest(q) ==
    /\ lpc = "idle"
    /\ query' = q
    /\ queried' = IF q.namespace # NoNamespace THEN <<q.namespace>> ELSE UniqueNamespaces
    /\ results' = [n \in Namespaces |->
                     IF \E i \in DOMAIN queried' : queried'[i] = n
                     THEN [state |-> "pending", value |-> <<>>]
                     ELSE NoPromise]
    /\ lpc' = "waiting"
    /\ UNCHANGED <<cluster, reachable, response>>
    /\ UNCHANGED <<manifestVars, parseVars, installVars, createVars, formVars>>

\* one listDeployments promise settles: fulfilled with the namespace's
\* deployments, or rejected when the cluster query fails
QuerySettles(ns) ==
    /\ lpc = "waiting"
    /\ results[ns].state = "pending"
    /\ results' = [results EXCEPT ![ns] =
                     IF reachable[ns]
                     THEN [state |-> "fulfilled", value |-> ListDeployments(ns)]
                     ELSE [state |-> "rejected", value |-> <<>>]]
    /\ UNCHANGED <<cluster, reachable, query, queried, response, lpc>>
    /\ UNCHANGED <<manifestVars, parseVars, installVars, createVars, formVars>>

AllFulfilled == \A i \in DOMAIN queried : results[queried[i]].state = "fulfilled"
SomeRejected == \E i \in DOMAIN queried : results[queried[i]].state = "rejected"

\* every promise is fulfilled: merge, sort (unfiltered only), paginate, answer
Respond ==
    /\ lpc = "waiting"
    /\ AllFulfilled
    /\ LET merged == Flatten(queried, results)
           deploymentsList == IF query.namespace # NoNamespace
                              THEN merged
                              ELSE SortByCreatedAt(merged)
       IN response' = Paginate(deploymentsList, query.limit, query.offset)
    /\ lpc' = "done"
    /\ UNCHANGED <<cluster, reachable, query, queried, results>>
    /\ UNCHANGED <<manifestVars, parseVars, installVars, createVars, formVars>>

\* a promise is rejected: the await throws into the catch block
RespondError ==
    /\ lpc = "waiting"
    /\ SomeRejected
    /\ response' = ErrorBody
    /\ lpc' = "done"
    /\ UNCHANGED <<cluster, reachable, query, queried, results>>
    /\ UNCHANGED <<manifestVars, parseVars, installVars, createVars, formVars>>

----------------------------------------------------------------------------
(* Errors of the cluster client (lib/k8s-errors.ts) *)

\* a body that is a Status object ("object", its numeric code or NoNumber)
BodyObject(code) == [t |-> "object", n |-> code, s |-> ""]

\* K8sApiError: statusCode, response.statusCode, body, response.body
K8sErrorSpace ==
    [object : {TRUE},
     statusCode : {Undefined, Num(302), Num(403), Num(409), Num(503)},
     responseStatusCode : {Undefined, Num(404), Num(409)},
     body : {Undefined, Str("Forbidden"), BodyObject(NoNumber), BodyObject(422), BodyObject(302)},
     responseBody : {Undefined, BodyObject(404)}]

\* a rejection whose reason is not an object (undefined, a string)
NotAnObject ==
    [object |-> FALSE, statusCode |-> Undefined, responseStatusCode |-> Undefined,
     body |-> Undefined, responseBody |-> Undefined]

ThrownSpace == K8sErrorSpace \cup {NotAnObject}

\* getK8sErrorStatusCode(error)
getK8sErrorStatusCodeTopLevelOnly(error) ==
    IF ~error.object THEN 500
    ELSE IF Truthy(error.statusCode) /\ error.statusCode.n >= 400 /\ error.statusCode.n < 600
         THEN error.statusCode.n
         ELSE 500
getK8sErrorStatusCode(error) ==
    IF ~error.object THEN 500
    ELSE LET statusCode == JsOr(error.statusCode, error.responseStatusCode)
             errorBody == JsOr(error.body, error.responseBody)
         IN IF Truthy(statusCode) /\ statusCode.n >= 400 /\ statusCode.n < 600
            THEN statusCode.n
            ELSE IF errorBody.t = "object" /\ errorBody.n # NoNumber
                 THEN errorBody.n
                 ELSE 500

----------------------------------------------------------------------------
(* DynamoProvider.checkInstallation *)

MaxPods == 2

\* status.phase of a listed pod; Undefined for a pod without status
PodPhaseSpace == {Undefined, Str("Running"), Str("Pending")}

\* listNamespacedCustomObject: fulfilled, or rejected with an error
CrdCallSpace ==
    {[ok |-> TRUE]} \cup {[ok |-> FALSE, error |-> e] : e \in ThrownSpace}

\* listNamespacedPod: fulfilled with pods.body.items, or rejected
PodsCallSpace ==
    {[ok |-> TRUE, items |-> ps] : ps \in SeqsUpTo(PodPhaseSpace, MaxPods)}
        \cup {[ok |-> FALSE, items |-> <<>>]}

NoCall == [ok |-> FALSE]

\* the catch block of the custom-resource list call: found is crdFound as
\* the try block left it
CrdFoundOnErrorAssumesPresent(error, found) ==
    IF error.object /\ error.responseStatusCode = Num(404) THEN FALSE ELSE TRUE
CrdFoundOnError(error, found) ==
    IF error.object /\ error.responseStatusCode = Num(404) THEN FALSE ELSE found

\* pods.body.items.some(pod => pod.status?.phase === 'Running')
SomeRunningIsEvery(items) == \A i \in DOMAIN items : items[i] = Str("Running")
SomeRunning(items) == \E i \in DOMAIN items : items[i] = Str("Running")

\* the message of the returned InstallationStatus
InstallationMessage(installed, found) ==
    IF installed THEN "Dynamo is installed and running"
    ELSE IF ~found THEN "Dynamo CRD not found. Please install the Dynamo operator."
    ELSE "Dynamo operator is not running"

NoInstallation == [returned |-> FALSE]

\* checkInstallation is not running
InstallIdle ==
    /\ crdCall = NoCall
    /\ podsCall = NoCall
    /\ crdFound = FALSE
    /\ operatorRunning = FALSE
    /\ installation = NoInstallation
    /\ ipc = "idle"

----------------------------------------------------------------------------
(* DynamoProvider.validateConfig and the deployments route's POST / *)

MaxIssues == 2

\* ZodIssue: path and message
PathSpace == {<<>>, <<"name">>, <<"resources", "gpu">>}
IssueSpace == [path : PathSpace, message : {"Required", "Expected number, received string"}]

\* the DeploymentConfig a successful parse returns
DataSpace ==
    {[name |-> "qwen-test", namespace |-> "dynamo-system", modelId |-> "Qwen/Qwen3-0.6B"]}
NoData == [name |-> "", namespace |-> "", modelId |-> ""]

\* dynamoDeploymentConfigSchema.safeParse(config): success with data, or
\* failure with the issues of result.error.errors
SafeParseSpace ==
    {[success |-> TRUE, data |-> d, issues |-> <<>>] : d \in DataSpace}
        \cup {[success |-> FALSE, data |-> NoData, issues |-> is] :
                 is \in SeqsUpTo(IssueSpace, MaxIssues) \ {<<>>}}

\* e.path.join('.')
RECURSIVE JoinPath(_)
JoinPath(path) ==
    IF path = <<>> THEN ""
    ELSE IF Len(path) = 1 THEN path[1]
    ELSE path[1] \o "." \o JoinPath(Tail(path))

\* validateConfig(config), from the result of safeParse(config)
validateConfigDropsErrors(result) ==
    IF ~result.success
    THEN [valid |-> FALSE, errors |-> <<>>, hasData |-> FALSE, data |-> NoData]
    ELSE [valid |-> TRUE, errors |-> <<>>, hasData |-> TRUE, data |-> result.data]
validateConfig(result) ==
    IF ~result.success
    THEN [valid |-> FALSE,
          errors |-> [i \in DOMAIN result.issues |->
                         JoinPath(result.issues[i].path) \o ": " \o result.issues[i].message],
          hasData |-> FALSE, data |-> NoData]
    ELSE [valid |-> TRUE, errors |-> <<>>, hasData |-> TRUE, data |-> result.data]

\* body.provider, and what the provider's schema makes of the body
ProviderFieldSpace == {Undefined, Str(""), Str("dynamo"), Str("kuberay"), Str("triton")}
BodySpace == [provider : ProviderFieldSpace, parse : SafeParseSpace]

\* providerRegistry.getProvider(providerId) finds a provider
IsRegistered(providerId) ==
    /\ providerId.t = "string"
    /\ \E i \in DOMAIN ProviderIds : ProviderIds[i] = providerId.s

\* the checks of POST / ahead of the cluster calls: why the body is
\* rejected, or "none"
RejectionSkipsValidation(b) ==
    IF ~Truthy(b.provider) THEN "provider required"
    ELSE IF ~IsRegistered(b.provider) THEN "provider not found"
    ELSE "none"
Rejection(b) ==
    IF ~Truthy(b.provider) THEN "provider required"
    ELSE IF ~IsRegistered(b.provider) THEN "provider not found"
    ELSE IF ~validateConfig(b.parse).valid THEN "validation error"
    ELSE "none"

\* kubernetesService.getClusterGpuCapacity and validateGpuFit: the capacity
\* fits, does not fit, or the query throws
GpuCheckSpace == {"fits", "does not fit", "throws"}
NoGpuCheck == "none"

\* gpuWarnings.length > 0 after the try/catch of the GPU fit validation
GpuWarningsOnThrow(check) == check # "fits"
GpuWarnings(check) == check = "does not fit"

\* the cluster client's create call: fulfilled, or rejected with an error
ClientCreateSpace ==
    {[ok |-> TRUE]} \cup {[ok |-> FALSE, error |-> e] : e \in ThrownSpace}

\* kubernetesService.createDeployment(config, providerId): resolves when the
\* client's create call does, and rejects with the client's error unchanged
createDeployment(call) ==
    IF call.ok
    THEN [settled |-> "fulfilled"]
    ELSE [settled |-> "rejected", reason |-> call.error]

NoStatus == 0
NoBodyYet == [provider |-> Undefined]
NoValidation == [valid |-> FALSE]
NotCreated == [settled |-> "pending"]
NoReply == [kind |-> "none", status |-> NoStatus, warnings |-> FALSE]

\* no POST / request is in flight
CreateIdle ==
    /\ body = NoBodyYet
    /\ validation = NoValidation
    /\ calls = <<>>
    /\ gpuCheck = NoGpuCheck
    /\ gpuWarnings = FALSE
    /\ clientCall = NoCall
    /\ created = NotCreated
    /\ reply = NoReply
    /\ cpc = "idle"

----------------------------------------------------------------------------
(* DeploymentForm (frontend/src/components/deployments/DeploymentForm.tsx) *)

MaxRequests == 2

\* the RuntimeIds, in the order of compatibleRuntimes
RuntimeIds == <<"dynamo", "kuberay", "kaito">>

\* RUNTIME_INFO[runtime].defaultNamespace
RUNTIME_INFO(runtime) ==
    CASE runtime = "dynamo" -> "dynamo-system"
      [] runtime = "kuberay" -> "kuberay-system"
      [] runtime = "kaito" -> "kaito-workspace"

\* RUNTIME_ENGINES[runtime]
RUNTIME_ENGINES(runtime) ==
    CASE runtime = "dynamo" -> {"vllm", "sglang", "trtllm"}
      [] runtime = "kuberay" -> {"vllm"}
      [] runtime = "kaito" -> {}

Includes(seq, x) == \E i \in DOMAIN seq : seq[i] = x

\* isRuntimeCompatible(runtimeId, modelEngines)
isRuntimeCompatible(runtimeId, modelEngines) ==
    IF Includes(modelEngines, "llamacpp")
    THEN runtimeId = "kaito"
    ELSE \E i \in DOMAIN modelEngines : modelEngines[i] \in RUNTIME_ENGINES(runtimeId)

\* getDefaultRuntime()
getDefaultRuntime(rts, m) ==
    IF \A r \in DOMAIN rts : rts[r] = "absent"
    THEN (IF Includes(m.supportedEngines, "llamacpp") THEN "kaito" ELSE "dynamo")
    ELSE LET installedAndCompatible ==
                 {i \in DOMAIN RuntimeIds :
                     /\ rts[RuntimeIds[i]] = "installed"
                     /\ isRuntimeCompatible(RuntimeIds[i], m.supportedEngines)}
             compatible ==
                 {i \in DOMAIN RuntimeIds : isRuntimeCompatible(RuntimeIds[i], m.supportedEngines)}
             First(found) == RuntimeIds[CHOOSE i \in found : \A j \in found : i <= j]
         IN IF installedAndCompatible # {} THEN First(installedAndCompatible)
            ELSE IF compatible # {} THEN First(compatible)
            ELSE "dynamo"

\* model.supportedEngines.filter(e => RUNTIME_ENGINES[runtime].includes(e))
AvailableEngines(m, runtime) == SelectSeq(m.supportedEngines, LAMBDA e : e \in RUNTIME_ENGINES(runtime))

\* the initial config state (the fields the runtime, mode and router controls touch)
InitialFormConfig(rts, m) ==
    [provider |-> getDefaultRuntime(rts, m),
     namespace |-> RUNTIME_INFO(getDefaultRuntime(rts, m)),
     engine |-> IF AvailableEngines(m, getDefaultRuntime(rts, m)) = <<>> THEN "vllm"
                ELSE AvailableEngines(m, getDefaultRuntime(rts, m))[1],
     mode |-> "aggregated",
     routerMode |-> "none"]

\* the setConfig of handleRuntimeChange(runtime), with config as the handler's render saw it
handleRuntimeChangeKeepsRouter(prev, seen, m, runtime) ==
    LET newAvailableEngines == AvailableEngines(m, runtime)
        currentEngineSupported == Includes(newAvailableEngines, seen.engine)
    IN [prev EXCEPT !.provider = runtime,
                    !.namespace = RUNTIME_INFO(runtime),
                    !.engine = IF currentEngineSupported THEN prev.engine
                               ELSE IF newAvailableEngines = <<>> THEN "vllm"
                               ELSE newAvailableEngines[1]]
handleRuntimeChange(prev, seen, m, runtime) ==
    LET newAvailableEngines == AvailableEngines(m, runtime)
        currentEngineSupported == Includes(newAvailableEngines, seen.engine)
    IN [prev EXCEPT !.provider = runtime,
                    !.namespace = RUNTIME_INFO(runtime),
                    !.engine = IF currentEngineSupported THEN prev.engine
                               ELSE IF newAvailableEngines = <<>> THEN "vllm"
                               ELSE newAvailableEngines[1],
                    !.routerMode = IF runtime = "dynamo" THEN prev.routerMode ELSE "none"]

\* isHuggingFaceGgufModel
isHuggingFaceGgufModel(m) ==
    /\ Len(m.supportedEngines) = 1
    /\ m.supportedEngines[1] = "llamacpp"
    /\ ~m.kaitoPrefix

\* the files of a GGUF repository
GgufFileSpace == {"Llama-3.2-1B-Q4_K_M.gguf"}

\* isKaitoConfigValid; ggufFile is "" or one of the repository's files
isKaitoConfigValid(runtime, m, file, premade) ==
    \/ runtime # "kaito"
    \/ IF isHuggingFaceGgufModel(m) THEN file \in GgufFileSpace ELSE premade

\* isRuntimeInstalled
isRuntimeInstalled(rts, runtime) == rts[runtime] = "installed"

\* the disabled attribute of the submit button
SubmitDisabled(processing, auth, rts, runtime, m, file, premade) ==
    \/ processing
    \/ auth /\ runtime # "kaito"
    \/ ~isRuntimeInstalled(rts, runtime)
    \/ ~isKaitoConfigValid(runtime, m, file, premade)

\* no form is mounted
FormIdle ==
    /\ runtimes = [i \in {} |-> "absent"]
    /\ formModel = [id |-> ""]
    /\ needsHfAuth = FALSE
    /\ selectedRuntime = "none"
    /\ formConfig = [provider |-> "none"]
    /\ prevConfig = [provider |-> "none"]
    /\ ggufFile = ""
    /\ selectedPremadeModel = FALSE
    /\ isProcessing = FALSE
    /\ requests = <<>>
    /\ fpc = "idle"

----------------------------------------------------------------------------
(* Specifications *)

\* the generate/parse pipeline at rest
ManifestIdle ==
    /\ config = EmptyObj
    /\ manifest = EmptyObj
    /\ status = EmptyObj
    /\ pc = "idle"

\* the listing handler at rest, over an empty cluster
ListIdle ==
    /\ cluster = [n \in Namespaces |-> <<>>]
    /\ reachable = [n \in Namespaces |-> TRUE]
    /\ query = NoQuery
    /\ queried = <<>>
    /\ results = [n \in Namespaces |-> NoPromise]
    /\ response = NoBody
    /\ lpc = "idle"

\* no resource is being parsed
ParseIdle ==
    /\ resource = EmptyObj
    /\ parsed = EmptyObj
    /\ ppc = "idle"

GenerateManifest ==
    /\ pc = "config"
    /\ manifest' = generateManifest(config)
    /\ pc' = "manifest"
    /\ UNCHANGED <<config, status>>
    /\ UNCHANGED <<listVars, parseVars, installVars, createVars, formVars>>

\* the manifest is read back with an empty status and parsed
ParseStatus ==
    /\ pc = "manifest"
    /\ \E now \in NowSpace :
         status' = parseStatus(RawResource(manifest, EmptyStatus), now)
    /\ pc' = "parsed"
    /\ UNCHANGED <<config, manifest>>
    /\ UNCHANGED <<listVars, parseVars, installVars, createVars, formVars>>

InitManifest ==
    /\ config \in ConfigSpace
    /\ manifest = EmptyObj
    /\ status = EmptyObj
    /\ pc = "config"
    /\ ListIdle
    /\ ParseIdle
    /\ InstallIdle
    /\ CreateIdle
    /\ FormIdle

NextManifest == GenerateManifest \/ ParseStatus

SpecManifest == InitManifest /\ [][NextManifest]_vars

InitList ==
    /\ ManifestIdle
    /\ ParseIdle
    /\ InstallIdle
    /\ CreateIdle
    /\ FormIdle
    /\ cluster \in ClusterSpace
    /\ reachable \in ReachableSpace
    /\ query = NoQuery
    /\ queried = <<>>
    /\ results = [n \in Namespaces |-> NoPromise]
    /\ response = NoBody
    /\ lpc = "idle"

NextList ==
    \/ \E q \in QuerySpace : ListRequest(q)
    \/ \E ns \in Namespaces : QuerySettles(ns)
    \/ Respond
    \/ RespondError

SpecList == InitList /\ [][NextList]_vars

----------------------------------------------------------------------------
(* parseStatus over the custom resources a cluster can hold *)

MaxWorkerKeys == 2
MaxConditions == 2

\* the worker keys parseStatus looks for under spec
WorkerKeyNames ==
    {"VllmWorker", "SglangWorker", "TrtllmWorker",
     "VllmPrefillWorker", "VllmDecodeWorker",
     "SglangPrefillWorker", "SglangDecodeWorker",
     "TrtllmPrefillWorker", "TrtllmDecodeWorker"}

\* a worker object: { 'model-path'?: string; replicas?: number }
WorkerObjectSpace ==
    {EmptyObj, "model-path" :> Str("Qwen/Qwen3-0.6B")}
    \cup {("model-path" :> Str("Qwen/Qwen3-0.6B")) @@ ("replicas" :> Num(r)) : r \in 0..MaxReplicas}

\* obj.spec: absent or without worker keys, or up to MaxWorkerKeys worker keys
RawSpecSpace ==
    UNION {[K -> WorkerObjectSpace] :
              K \in {S \in SUBSET WorkerKeyNames : Cardinality(S) <= MaxWorkerKeys}}

\* obj.metadata: every field optional, the name possibly empty
MetadataSpace ==
    [name : {Undefined, Str(""), Str("qwen-test")},
     namespace : {Undefined, Str("dynamo-system")},
     creationTimestamp : {NoTime, [d |-> 1, t |-> 0]}]

\* the desired counts an operator may report under status
StatusDesiredSpace ==
    {[EmptyStatus EXCEPT !.desired = d, !.prefillDesired = p, !.decodeDesired = q] :
        d \in {Undefined, Num(0), Num(3)}, p \in {Undefined, Num(2)}, q \in {Undefined, Num(2)}}

\* the phase and the ready/available counts an operator may report
StatusLiveSpace ==
    {[EmptyStatus EXCEPT !.phase = ph, !.ready = r, !.available = a,
                         !.prefillReady = pr, !.decodeReady = dr] :
        ph \in {Undefined, Str("Running"), Str("Failed"), Str("Deploying")},
        r \in {Undefined, Num(1)}, a \in {Undefined, Num(1)},
        pr \in {Undefined, Num(1)}, dr \in {Undefined, Num(1)}}

DefaultMetadata ==
    [name |-> Str("qwen-test"), namespace |-> Str("dynamo-system"),
     creationTimestamp |-> [d |-> 1, t |-> 0]]
DefaultRawSpecs ==
    {"VllmWorker" :> (("model-path" :> Str("Qwen/Qwen3-0.6B")) @@ ("replicas" :> Num(1))),
     ("SglangPrefillWorker" :> (("model-path" :> Str("Qwen/Qwen3-0.6B")) @@ ("replicas" :> Num(1))))
        @@ ("SglangDecodeWorker" :> (("model-path" :> Str("Qwen/Qwen3-0.6B")) @@ ("replicas" :> Num(1))))}

\* reason, message and lastTransitionTime of a condition: all absent or all present
ConditionDetailSpace ==
    {[reason |-> Undefined, message |-> Undefined, lastTransitionTime |-> Undefined],
     [reason |-> Str("PodsReady"), message |-> Str("all pods ready"),
      lastTransitionTime |-> Str("2025-01-01T00:00:00Z")]}

\* an element of status.conditions: every field optional
ConditionSpace ==
    {[type |-> ty, status |-> cs, reason |-> d.reason, message |-> d.message,
      lastTransitionTime |-> d.lastTransitionTime] :
        ty \in {Undefined, Str("Ready")},
        cs \in {Undefined, Str(""), Str("True")},
        d \in ConditionDetailSpace}

\* the conditions an operator may report, in its order
StatusConditionsSpace ==
    {[EmptyStatus EXCEPT !.conditions = cs] : cs \in SeqsUpTo(ConditionSpace, MaxConditions)}

\* the custom resources handed to parseStatus: every metadata (with and
\* without worker keys under spec), every spec with every reported desired
\* count, every live status, every list of conditions
RawSpace ==
    {[metadata |-> m, spec |-> sp, status |-> EmptyStatus] :
        m \in MetadataSpace, sp \in DefaultRawSpecs \cup {EmptyObj}}
    \cup {[metadata |-> DefaultMetadata, spec |-> sp, status |-> st] :
        sp \in {x \in DefaultRawSpecs : DOMAIN x = {"VllmWorker"}}, st \in StatusConditionsSpace}
    \cup {[metadata |-> DefaultMetadata, spec |-> sp, status |-> st] :
        sp \in RawSpecSpace, st \in StatusDesiredSpace}
    \cup {[metadata |-> DefaultMetadata, spec |-> sp, status |-> st] :
        sp \in DefaultRawSpecs, st \in StatusLiveSpace}

\* a resource read from the cluster is parsed
ParseResource ==
    /\ ppc = "resource"
    /\ \E now \in NowSpace : parsed' = parseStatus(resource, now)
    /\ ppc' = "parsed"
    /\ UNCHANGED resource
    /\ UNCHANGED <<manifestVars, listVars, installVars, createVars, formVars>>

InitParse ==
    /\ ManifestIdle
    /\ ListIdle
    /\ InstallIdle
    /\ CreateIdle
    /\ FormIdle
    /\ resource \in RawSpace
    /\ parsed = EmptyObj
    /\ ppc = "resource"

NextParse == ParseResource

SpecParse == InitParse /\ [][NextParse]_vars

----------------------------------------------------------------------------
(* checkInstallation step by step *)

\* the custom-resource list call settles
ListCustomObjects ==
    /\ ipc = "listing resources"
    /\ \E call \in CrdCallSpace :
          /\ crdCall' = call
          /\ crdFound' = IF call.ok THEN TRUE ELSE CrdFoundOnError(call.error, FALSE)
    /\ ipc' = "listing pods"
    /\ UNCHANGED <<podsCall, operatorRunning, installation>>
    /\ UNCHANGED <<manifestVars, listVars, parseVars, createVars, formVars>>

\* the operator pod list call settles
ListOperatorPods ==
    /\ ipc = "listing pods"
    /\ \E call \in PodsCallSpace :
          /\ podsCall' = call
          /\ operatorRunning' = IF call.ok THEN SomeRunning(call.items) ELSE FALSE
    /\ ipc' = "returning"
    /\ UNCHANGED <<crdCall, crdFound, installation>>
    /\ UNCHANGED <<manifestVars, listVars, parseVars, createVars, formVars>>

\* the result object is built and returned
ReturnInstallation ==
    /\ ipc = "returning"
    /\ LET installed == crdFound /\ operatorRunning
       IN installation' = [returned |-> TRUE, installed |-> installed,
                           crdFound |-> crdFound, operatorRunning |-> operatorRunning,
                           message |-> InstallationMessage(installed, crdFound)]
    /\ ipc' = "done"
    /\ UNCHANGED <<crdCall, podsCall, crdFound, operatorRunning>>
    /\ UNCHANGED <<manifestVars, listVars, parseVars, createVars, formVars>>

InitInstall ==
    /\ ManifestIdle
    /\ ListIdle
    /\ ParseIdle
    /\ CreateIdle
    /\ FormIdle
    /\ crdCall = NoCall
    /\ podsCall = NoCall
    /\ crdFound = FALSE
    /\ operatorRunning = FALSE
    /\ installation = NoInstallation
    /\ ipc = "listing resources"

NextInstall == ListCustomObjects \/ ListOperatorPods \/ ReturnInstallation

SpecInstall == InitInstall /\ [][NextInstall]_vars

----------------------------------------------------------------------------
(* POST / step by step *)

\* the body is read and checked; an accepted body starts the GPU capacity query
CreateRequest ==
    /\ cpc = "request"
    /\ validation' = IF Truthy(body.provider) /\ IsRegistered(body.provider)
                     THEN validateConfig(body.parse) ELSE NoValidation
    /\ LET why == Rejection(body)
       IN IF why = "none"
          THEN /\ calls' = Append(calls, "getClusterGpuCapacity")
               /\ cpc' = "gpu check"
               /\ UNCHANGED reply
          ELSE /\ reply' = [kind |-> why,
                            status |-> IF why = "provider not found" THEN NoStatus ELSE 400,
                            warnings |-> FALSE]
               /\ cpc' = "done"
               /\ UNCHANGED calls
    /\ UNCHANGED <<body, gpuCheck, gpuWarnings, clientCall, created>>
    /\ UNCHANGED <<manifestVars, listVars, parseVars, installVars, formVars>>

\* the GPU fit check ends (its failure is only logged); createDeployment is called
GpuCheckSettles ==
    /\ cpc = "gpu check"
    /\ \E check \in GpuCheckSpace :
          /\ gpuCheck' = check
          /\ gpuWarnings' = GpuWarnings(check)
    /\ calls' = Append(calls, "createDeployment")
    /\ cpc' = "creating"
    /\ UNCHANGED <<body, validation, clientCall, created, reply>>
    /\ UNCHANGED <<manifestVars, listVars, parseVars, installVars, formVars>>

\* createDeployment settles: 201, or an HTTPException with the error's status
CreateSettles ==
    /\ cpc = "creating"
    /\ \E call \in ClientCreateSpace :
          /\ clientCall' = call
          /\ created' = createDeployment(call)
          /\ reply' = IF created'.settled = "fulfilled"
                      THEN [kind |-> "created", status |-> 201, warnings |-> gpuWarnings]
                      ELSE [kind |-> "create failed",
                            status |-> getK8sErrorStatusCode(created'.reason),
                            warnings |-> FALSE]
    /\ cpc' = "done"
    /\ UNCHANGED <<body, validation, calls, gpuCheck, gpuWarnings>>
    /\ UNCHANGED <<manifestVars, listVars, parseVars, installVars, formVars>>

InitCreate ==
    /\ ManifestIdle
    /\ ListIdle
    /\ ParseIdle
    /\ InstallIdle
    /\ FormIdle
    /\ body \in BodySpace
    /\ validation = NoValidation
    /\ calls = <<>>
    /\ gpuCheck = NoGpuCheck
    /\ gpuWarnings = FALSE
    /\ clientCall = NoCall
    /\ created = NotCreated
    /\ reply = NoReply
    /\ cpc = "request"

NextCreate == CreateRequest \/ GpuCheckSettles \/ CreateSettles

SpecCreate == InitCreate /\ [][NextCreate]_vars

----------------------------------------------------------------------------
(* DeploymentForm: the user's actions and the effects, under SpecForm *)

\* the runtime radio group: shown when runtimes are listed, one item per
\* listed runtime, the incompatible ones disabled
RuntimeChange(runtime) ==
    /\ fpc = "mounted"
    /\ runtimes[runtime] # "absent"
    /\ isRuntimeCompatible(runtime, formModel.supportedEngines)
    /\ runtime # selectedRuntime
    /\ selectedRuntime' = runtime
    /\ prevConfig' = formConfig
    /\ formConfig' = handleRuntimeChange(formConfig, formConfig, formModel, runtime)
    /\ selectedPremadeModel' = IF runtime # "kaito" THEN FALSE ELSE selectedPremadeModel
    /\ UNCHANGED <<runtimes, formModel, needsHfAuth, ggufFile, isProcessing, requests, fpc>>
    /\ UNCHANGED <<manifestVars, listVars, parseVars, installVars, createVars>>

\* the deployment mode radio group, shown for the runtimes other than kaito
ModeChange(mode) ==
    /\ fpc = "mounted"
    /\ selectedRuntime # "kaito"
    /\ mode # formConfig.mode
    /\ prevConfig' = formConfig
    /\ formConfig' = [formConfig EXCEPT !.mode = mode]
    /\ UNCHANGED <<runtimes, formModel, needsHfAuth, selectedRuntime, ggufFile,
                   selectedPremadeModel, isProcessing, requests, fpc>>
    /\ UNCHANGED <<manifestVars, listVars, parseVars, installVars, createVars>>

\* the router mode radio group, shown in the aggregated options when the
\* runtime is dynamo
RouterModeChange(routerMode) ==
    /\ fpc = "mounted"
    /\ selectedRuntime # "kaito"
    /\ formConfig.mode = "aggregated"
    /\ selectedRuntime = "dynamo"
    /\ routerMode # formConfig.routerMode
    /\ prevConfig' = formConfig
    /\ formConfig' = [formConfig EXCEPT !.routerMode = routerMode]
    /\ UNCHANGED <<runtimes, formModel, needsHfAuth, selectedRuntime, ggufFile,
                   selectedPremadeModel, isProcessing, requests, fpc>>
    /\ UNCHANGED <<manifestVars, listVars, parseVars, installVars, createVars>>

\* the GGUF files of the repository arrive: the effect selects one when none is selected
GgufFilesLoaded ==
    /\ fpc = "mounted"
    /\ isHuggingFaceGgufModel(formModel)
    /\ selectedRuntime = "kaito"
    /\ ggufFile = ""
    /\ \E file \in GgufFileSpace : ggufFile' = file
    /\ UNCHANGED <<runtimes, formModel, needsHfAuth, selectedRuntime, formConfig, prevConfig,
                   selectedPremadeModel, isProcessing, requests, fpc>>
    /\ UNCHANGED <<manifestVars, listVars, parseVars, installVars, createVars>>

\* the premade models arrive: the effect selects the one that matches a KAITO model
PremadeModelsLoaded ==
    /\ fpc = "mounted"
    /\ formModel.kaitoPrefix
    /\ ~selectedPremadeModel
    /\ selectedPremadeModel' = TRUE
    /\ UNCHANGED <<runtimes, formModel, needsHfAuth, selectedRuntime, formConfig, prevConfig,
                   ggufFile, isProcessing, requests, fpc>>
    /\ UNCHANGED <<manifestVars, listVars, parseVars, installVars, createVars>>

\* The form is submitted, by a click on the submit button (a disabled
\* button does not submit) or by Cmd/Ctrl+Enter (requestSubmit() fires the
\* form's submit event); handleSubmit issues the create request with the
\* config as it stands.
Submit(shortcut) ==
    LET disabled == SubmitDisabled(isProcessing, needsHfAuth, runtimes, selectedRuntime,
                                   formModel, ggufFile, selectedPremadeModel)
    IN /\ fpc = "mounted"
       /\ Len(requests) < MaxRequests
       /\ IF shortcut THEN ~isProcessing /\ ~needsHfAuth ELSE ~disabled
       /\ requests' = Append(requests,
                             [provider |-> formConfig.provider,
                              shortcut |-> shortcut,
                              installed |-> isRuntimeInstalled(runtimes, selectedRuntime),
                              kaitoValid |-> isKaitoConfigValid(selectedRuntime, formModel,
                                                                ggufFile, selectedPremadeModel),
                              disabled |-> disabled])
       /\ isProcessing' = TRUE
       /\ UNCHANGED <<runtimes, formModel, needsHfAuth, selectedRuntime, formConfig,
                      prevConfig, ggufFile, selectedPremadeModel, fpc>>
       /\ UNCHANGED <<manifestVars, listVars, parseVars, installVars, createVars>>

\* the create request settles: on success the form is left, on failure it stays
RequestSettles ==
    /\ fpc = "mounted"
    /\ isProcessing
    /\ isProcessing' = FALSE
    /\ \E ok \in BOOLEAN : fpc' = IF ok THEN "left" ELSE "mounted"
    /\ UNCHANGED <<runtimes, formModel, needsHfAuth, selectedRuntime, formConfig, prevConfig,
                   ggufFile, selectedPremadeModel, requests>>
    /\ UNCHANGED <<manifestVars, listVars, parseVars, installVars, createVars>>

InitForm ==
    /\ ManifestIdle
    /\ ListIdle
    /\ ParseIdle
    /\ InstallIdle
    /\ CreateIdle
    \* the runtimes prop: each runtime not listed, listed and installed, or
    \* listed and not installed
    /\ runtimes \in [{RuntimeIds[i] : i \in DOMAIN RuntimeIds} ->
                        {"absent", "installed", "not installed"}]
    \* the model prop: a model served by the GPU engines, a KAITO premade
    \* model, a HuggingFace GGUF model
    /\ formModel \in
          {[id |-> "Qwen/Qwen3-0.6B", supportedEngines |-> <<"sglang", "vllm">>, kaitoPrefix |-> FALSE],
           [id |-> "kaito/llama3.2-1b", supportedEngines |-> <<"llamacpp">>, kaitoPrefix |-> TRUE],
           [id |-> "bartowski/Llama-3.2-1B-GGUF", supportedEngines |-> <<"llamacpp">>, kaitoPrefix |-> FALSE]}
    /\ needsHfAuth \in BOOLEAN
    /\ selectedRuntime = getDefaultRuntime(runtimes, formModel)
    /\ formConfig = InitialFormConfig(runtimes, formModel)
    /\ prevConfig = InitialFormConfig(runtimes, formModel)
    /\ ggufFile = ""
    /\ selectedPremadeModel = FALSE
    /\ isProcessing = FALSE
    /\ requests = <<>>
    /\ fpc = "mounted"

NextForm ==
    \/ \E i \in DOMAIN RuntimeIds : RuntimeChange(RuntimeIds[i])
    \/ \E mode \in Modes : ModeChange(mode)
    \/ \E routerMode \in RouterModes : RouterModeChange(routerMode)
    \/ GgufFilesLoaded
    \/ PremadeModelsLoaded
    \/ \E shortcut \in BOOLEAN : Submit(shortcut)
    \/ RequestSettles

SpecForm == InitForm /\ [][NextForm]_vars

----------------------------------------------------------------------------
(* Properties of generateManifest and parseStatus, under SpecManifest *)

AggregatedKeys == {"VllmWorker", "SglangWorker", "TrtllmWorker"}
PrefillKeys == {"VllmPrefillWorker", "SglangPrefillWorker", "TrtllmPrefillWorker"}
DecodeKeys == {"VllmDecodeWorker", "SglangDecodeWorker", "TrtllmDecodeWorker"}
FamilyPairs == {{"VllmPrefillWorker", "VllmDecodeWorker"},
                {"SglangPrefillWorker", "SglangDecodeWorker"},
                {"TrtllmPrefillWorker", "TrtllmDecodeWorker"}}

\* generateManifest has returned
Generated == pc \in {"manifest", "parsed"}
\* the keys of the manifest's spec other than Frontend
WorkerKeysOf(m) == DOMAIN m.spec \ {"Frontend"}
\* the prefill / decode worker spec of a disaggregated manifest
PrefillWorkerOf(m) == m.spec[CHOOSE k \in DOMAIN m.spec : k \in PrefillKeys]
DecodeWorkerOf(m) == m.spec[CHOOSE k \in DOMAIN m.spec : k \in DecodeKeys]

\* C1: an aggregated config yields a spec with exactly one worker key, an
\* aggregated one, and no prefill/decode key; a disaggregated config yields
\* exactly two worker keys, the prefill and the decode key of one engine
\* family, and no aggregated worker key.
C1_WorkerKeys ==
    Generated =>
        LET keys == WorkerKeysOf(manifest)
        IN /\ "Frontend" \in DOMAIN manifest.spec
           /\ config.mode = "aggregated" =>
                /\ Cardinality(keys) = 1
                /\ keys \subseteq AggregatedKeys
           /\ config.mode = "disaggregated" => keys \in FamilyPairs

C1_Witness ==
    /\ pc = "manifest"
    /\ config.mode = "disaggregated"
    /\ config.engine = "sglang"
    /\ DOMAIN config.engineArgs = {"replicas"}
    /\ WorkerKeysOf(manifest) = {"SglangPrefillWorker", "SglangDecodeWorker"}

\* C2: parsing the generated manifest with an empty status returns the
\* engine and the mode of the config, for every engine and both modes.
C2_RoundTrip ==
    pc = "parsed" => status.engine = config.engine /\ status.mode = config.mode

\* C3: every engineArgs entry is present with its own value in every worker
\* spec of the manifest: no key the generator writes survives an engineArgs
\* entry of the same name.
C3_EngineArgsWin ==
    Generated =>
        \A w \in WorkerKeysOf(manifest) : \A k \in DOMAIN config.engineArgs :
            Get(manifest.spec[w], k) = config.engineArgs[k]

\* C4 as stated: for every disaggregated config the parsed replicas.desired
\* is prefillReplicas + decodeReplicas.
C4_DesiredIsSum_Original ==
    (pc = "parsed" /\ config.mode = "disaggregated") =>
        status.replicas.desired = Num(config.prefillReplicas + config.decodeReplicas)

\* C4 (amended): for every disaggregated config whose engineArgs do not set
\* replicas, the parsed replicas.desired is prefillReplicas + decodeReplicas.
C4_DesiredIsSum ==
    (pc = "parsed" /\ config.mode = "disaggregated" /\ ~Has(config.engineArgs, "replicas")) =>
        status.replicas.desired = Num(config.prefillReplicas + config.decodeReplicas)

C4_Witness ==
    /\ pc = "parsed"
    /\ config.mode = "disaggregated"
    /\ config.prefillReplicas = 2
    /\ config.decodeReplicas = 1
    /\ status.replicas.desired = Num(3)

\* C5 as stated: for vllm the prefill worker has is-prefill-worker = true and
\* the decode worker has no is-prefill-worker key; for sglang and trtllm the
\* prefill worker has disaggregation-mode "prefill" and the decode worker
\* disaggregation-mode "decode".
C5_DisaggregationFlags_Original ==
    (Generated /\ config.mode = "disaggregated") =>
        /\ config.engine = "vllm" =>
             /\ Get(PrefillWorkerOf(manifest), "is-prefill-worker") = Bool(TRUE)
             /\ ~Has(DecodeWorkerOf(manifest), "is-prefill-worker")
        /\ config.engine \in {"sglang", "trtllm"} =>
             /\ Get(PrefillWorkerOf(manifest), "disaggregation-mode") = Str("prefill")
             /\ Get(DecodeWorkerOf(manifest), "disaggregation-mode") = Str("decode")

\* C5 (amended): as stated, except that the vllm decode worker has an
\* is-prefill-worker key exactly when engineArgs supplies one, and then with
\* the engineArgs value.
C5_DisaggregationFlags ==
    (Generated /\ config.mode = "disaggregated") =>
        /\ config.engine = "vllm" =>
             /\ Get(PrefillWorkerOf(manifest), "is-prefill-worker") = Bool(TRUE)
             /\ Get(DecodeWorkerOf(manifest), "is-prefill-worker")
                    = Get(config.engineArgs, "is-prefill-worker")
        /\ config.engine \in {"sglang", "trtllm"} =>
             /\ Get(PrefillWorkerOf(manifest), "disaggregation-mode") = Str("prefill")
             /\ Get(DecodeWorkerOf(manifest), "disaggregation-mode") = Str("decode")

C5_Witness ==
    /\ pc = "manifest"
    /\ config.mode = "disaggregated"
    /\ config.engine = "vllm"
    /\ config.engineArgs = EmptyObj
    /\ Has(PrefillWorkerOf(manifest), "is-prefill-worker")
    /\ ~Has(DecodeWorkerOf(manifest), "is-prefill-worker")

\* the optional flags of the config and the worker-spec key of each
FlagKeys == {<<"enforceEager", "enforce-eager">>,
             <<"enablePrefixCaching", "enable-prefix-caching">>,
             <<"trustRemoteCode", "trust-remote-code">>}

\* C6 as stated: in every worker spec a flag's key is present exactly when
\* the flag is true, and then holds true; max-model-len is absent when
\* contextLength is absent.
C6_MinimalFlags_Original ==
    Generated =>
        \A w \in WorkerKeysOf(manifest) :
            /\ \A fk \in FlagKeys :
                 /\ ~config[fk[1]] => ~Has(manifest.spec[w], fk[2])
                 /\ config[fk[1]] => Get(manifest.spec[w], fk[2]) = Bool(TRUE)
            /\ config.contextLength = 0 => ~Has(manifest.spec[w], "max-model-len")

\* C6 (amended): the same, for every flag key and max-model-len that
\* engineArgs does not itself set.
C6_MinimalFlags ==
    Generated =>
        \A w \in WorkerKeysOf(manifest) :
            /\ \A fk \in FlagKeys :
                 ~Has(config.engineArgs, fk[2]) =>
                     /\ ~config[fk[1]] => ~Has(manifest.spec[w], fk[2])
                     /\ config[fk[1]] => Get(manifest.spec[w], fk[2]) = Bool(TRUE)
            /\ (config.contextLength = 0 /\ ~Has(config.engineArgs, "max-model-len"))
                   => ~Has(manifest.spec[w], "max-model-len")

C6_Witness ==
    /\ pc = "manifest"
    /\ config.mode = "disaggregated"
    /\ ~config.enforceEager
    /\ config.trustRemoteCode
    /\ config.contextLength = 0
    /\ DOMAIN config.engineArgs = {"gpu-memory-utilization"}
    /\ \A w \in WorkerKeysOf(manifest) :
           /\ ~Has(manifest.spec[w], "enforce-eager")
           /\ Has(manifest.spec[w], "trust-remote-code")

\* C7: the Frontend of every disaggregated manifest has a router-mode other
\* than "none", and it is "round-robin" when the config's routerMode is "none".
C7_RouterUpgrade ==
    (Generated /\ config.mode = "disaggregated") =>
        /\ Has(manifest.spec["Frontend"], "router-mode")
        /\ manifest.spec["Frontend"]["router-mode"] # Str("none")
        /\ config.routerMode = "none" =>
               manifest.spec["Frontend"]["router-mode"] = Str("round-robin")

C7_Witness ==
    /\ pc = "manifest"
    /\ config.mode = "disaggregated"
    /\ config.routerMode = "none"
    /\ Get(manifest.spec["Frontend"], "router-mode") = Str("round-robin")

----------------------------------------------------------------------------
(* Properties of GET /api/deployments, under SpecList *)

\* the request in flight has no namespace filter and has been answered
UnfilteredDone == lpc = "done" /\ query.namespace = NoNamespace

\* C9: in the unfiltered listing a failed namespace query contributes an
\* empty list and the others are still listed: the total of the response is
\* the number of deployments of the namespaces whose query succeeds.
C9_PartialFailure ==
    UnfilteredDone =>
        response.pagination.total
            = SumLen([n \in Namespaces |-> IF reachable[n] THEN cluster[n] ELSE <<>>],
                     Namespaces)

\* C10: the deployments of an unfiltered response are ordered by createdAt,
\* newest first.
C10_NewestFirst ==
    UnfilteredDone =>
        \A i, j \in DOMAIN response.deployments :
            i < j => GetTime(response.deployments[i].createdAt)
                        >= GetTime(response.deployments[j].createdAt)

\* two deployments of different namespaces, the older one in the namespace
\* queried first, are answered newest first
C10_Witness ==
    /\ UnfilteredDone
    /\ Len(response.deployments) = 2
    /\ response.deployments[1].namespace = UniqueNamespaces[2]
    /\ response.deployments[2].namespace = UniqueNamespaces[1]
    /\ GetTime(response.deployments[1].createdAt) > GetTime(response.deployments[2].createdAt)


\* the deployments of every provider namespace, in the order of the queries
\* and, inside a namespace, of the cluster
AllDeployments ==
    ListDeployments(UniqueNamespaces[1]) \o ListDeployments(UniqueNamespaces[2])
        \o ListDeployments(UniqueNamespaces[3])

\* list is ordered newest first and keeps the order of all for equal times
IsSortedMergeOf(list, all) ==
    /\ Len(list) = Len(all)
    /\ \E perm \in [1..Len(all) -> 1..Len(all)] :
          /\ \A i, j \in 1..Len(all) : i # j => perm[i] # perm[j]
          /\ \A i \in 1..Len(all) : list[i] = all[perm[i]]
          /\ \A i, j \in 1..Len(all) :
                i < j => \/ GetTime(list[i].createdAt) > GetTime(list[j].createdAt)
                         \/ /\ GetTime(list[i].createdAt) = GetTime(list[j].createdAt)
                            /\ perm[i] < perm[j]

\* C11: when every namespace query succeeds, the page of an unfiltered
\* response is elements offset .. offset+limit-1 of the whole merged list
\* sorted newest first (offset 0 and no limit when absent), total is the size
\* of the merged list, and hasMore says that elements remain after the page.
C11_PageOfSortedList ==
    (UnfilteredDone /\ AllFulfilled) =>
        \E full \in [1..Len(AllDeployments) -> {AllDeployments[i] : i \in DOMAIN AllDeployments}] :
            /\ IsSortedMergeOf(full, AllDeployments)
            /\ LET o == IF query.offset = NoNumber THEN 0 ELSE query.offset
                   rest == IF Len(full) > o THEN Len(full) - o ELSE 0
                   n == IF query.limit # NoNumber /\ query.limit < rest THEN query.limit ELSE rest
               IN /\ Len(response.deployments) = n
                  /\ \A k \in 1..n : response.deployments[k] = full[o + k]
                  /\ response.pagination.total = Len(full)
                  /\ response.pagination.hasMore <=> (o + n < Len(full))

\* the second of two deployments is asked for: offset 1, limit 1
C11_Witness ==
    /\ UnfilteredDone
    /\ AllFulfilled
    /\ query.offset = 1
    /\ query.limit = 1
    /\ response.pagination.total = 2
    /\ Len(response.deployments) = 1
    /\ ~response.pagination.hasMore


----------------------------------------------------------------------------
(* Properties of parseStatus over cluster resources, under SpecParse *)

Phases == {"Pending", "Running", "Failed", "Unknown"}

\* parseStatus has returned
Parsed == ppc = "parsed"

\* C17: the phase of every parsed status is one of Pending, Running, Failed,
\* Unknown, whatever string status.phase holds.
C17_PhaseEnum ==
    Parsed => parsed.phase \in {Str(p) : p \in Phases}

\* C18: frontendService is the name field of the same status followed by
\* "-frontend".
C18_FrontendService ==
    Parsed => parsed.frontendService = JsToString(parsed.name) \o "-frontend"

\* the worker key of an engine in aggregated mode, and its prefill and decode keys
AggregatedKeyOf(e) ==
    CASE e = "vllm" -> "VllmWorker" [] e = "sglang" -> "SglangWorker" [] e = "trtllm" -> "TrtllmWorker"
PrefillKeyOf(e) ==
    CASE e = "vllm" -> "VllmPrefillWorker" [] e = "sglang" -> "SglangPrefillWorker"
      [] e = "trtllm" -> "TrtllmPrefillWorker"
DecodeKeyOf(e) ==
    CASE e = "vllm" -> "VllmDecodeWorker" [] e = "sglang" -> "SglangDecodeWorker"
      [] e = "trtllm" -> "TrtllmDecodeWorker"
\* the engine family of a worker key
EngineOfKey(k) ==
    CASE k \in {"VllmWorker", "VllmPrefillWorker", "VllmDecodeWorker"} -> "vllm"
      [] k \in {"SglangWorker", "SglangPrefillWorker", "SglangDecodeWorker"} -> "sglang"
      [] OTHER -> "trtllm"

\* replicas of the worker under key k of the resource's spec: n when the key
\* and its replicas are present, dflt otherwise
SpecReplicas(k, dflt) ==
    IF Has(resource.spec, k) /\ Has(resource.spec[k], "replicas")
    THEN resource.spec[k]["replicas"].n
    ELSE dflt

\* replicas.desired as the spec of the resource gives it, with zeroAs for an
\* aggregated worker whose replicas is 0
DesiredFromSpec(zeroAs) ==
    IF parsed.mode = "disaggregated"
    THEN SpecReplicas(PrefillKeyOf(parsed.engine), 0) + SpecReplicas(DecodeKeyOf(parsed.engine), 0)
    ELSE LET r == SpecReplicas(AggregatedKeyOf(parsed.engine), 1)
         IN IF r = 0 THEN zeroAs ELSE r

\* C19: replicas.desired is read from the spec for every resource: the
\* aggregated worker's replicas (1 when absent), or the sum of the prefill
\* and decode workers' replicas.
C19_DesiredFromSpec ==
    Parsed => parsed.replicas.desired = Num(DesiredFromSpec(0))

\* what line 347 does: status.replicas.desired when it is a non-zero number,
\* the count read from the spec (an aggregated 0 read as 1) otherwise
DesiredPrefersStatus ==
    Parsed =>
        IF Truthy(resource.status.desired)
        THEN parsed.replicas.desired = resource.status.desired
        ELSE parsed.replicas.desired = Num(DesiredFromSpec(1))

\* the engine and mode the worker keys of the resource's spec stand for
EngineModeFromKeys ==
    LET keys == DOMAIN resource.spec
        roleKeys == keys \cap (PrefillKeys \cup DecodeKeys)
        plainKeys == keys \cap AggregatedKeys
    IN /\ roleKeys # {} =>
            /\ parsed.mode = "disaggregated"
            /\ parsed.engine \in {EngineOfKey(k) : k \in roleKeys}
       /\ (roleKeys = {} /\ plainKeys # {}) =>
            /\ parsed.mode = "aggregated"
            /\ parsed.engine \in {EngineOfKey(k) : k \in plainKeys}
       /\ keys = {} =>
            /\ parsed.mode = "aggregated"
            /\ parsed.engine = "vllm"

\* C20: engine and mode follow the worker keys, and a resource without
\* worker keys is vllm, aggregated, with 1 desired replica.
C20_EngineAndMode ==
    Parsed =>
        /\ EngineModeFromKeys
        /\ DOMAIN resource.spec = {} => parsed.replicas.desired = Num(1)

\* engine and mode alone follow the worker keys of every resource
EngineModeDetected == Parsed => EngineModeFromKeys


----------------------------------------------------------------------------
(* Properties of POST / and validateConfig, under SpecCreate *)

\* the body has no provider, names an unregistered one, or fails the schema
Rejectable ==
    \/ body.provider \in {Undefined, Str("")}
    \/ body.provider \notin {Str(ProviderIds[i]) : i \in DOMAIN ProviderIds}
    \/ ~body.parse.success

\* C12: a create request whose provider field is missing, whose provider is
\* not registered, or whose config fails validateConfig is rejected before
\* any cluster call: neither the GPU capacity query nor createDeployment is
\* invoked for it, at any point of the request.
C12_RejectedBeforeClusterCalls ==
    (cpc # "idle" /\ Rejectable) =>
        /\ calls = <<>>
        /\ clientCall = NoCall
        /\ created = NotCreated
        /\ cpc \in {"request", "done"}
        /\ cpc = "done" =>
              reply.kind \in {"provider required", "provider not found", "validation error"}

C12_Witness ==
    /\ cpc = "done"
    /\ body.provider = Str("dynamo")
    /\ ~body.parse.success
    /\ reply.kind = "validation error"
    /\ reply.status = 400
    /\ calls = <<>>

\* the status codes an error object carries
CarriedCodes(e) == {e.statusCode, e.responseStatusCode} \ {Undefined}

\* C13: when the cluster client's create call fails with an error carrying
\* an HTTP error status code (400..599), the exception POST / throws for the
\* failed createDeployment carries that same status code.
C13_StatusCodeSurfaces ==
    (cpc = "done" /\ clientCall # NoCall /\ ~clientCall.ok) =>
        \A c \in 400..599 :
            CarriedCodes(clientCall.error) = {Num(c)} =>
                /\ reply.kind = "create failed"
                /\ reply.status = c

C13_Witness ==
    /\ cpc = "done"
    /\ clientCall # NoCall
    /\ ~clientCall.ok
    /\ clientCall.error.statusCode = Undefined
    /\ clientCall.error.responseStatusCode = Num(409)
    /\ clientCall.error.body = Undefined
    /\ reply.kind = "create failed"
    /\ reply.status = 409

\* validateConfig has returned for the body
Validated == cpc \notin {"idle", "request"} /\ validation # NoValidation

\* path: message, for the paths of PathSpace
IssueText(issue) ==
    (CASE Len(issue.path) = 0 -> ""
       [] Len(issue.path) = 1 -> issue.path[1]
       [] Len(issue.path) = 2 -> issue.path[1] \o "." \o issue.path[2])
        \o ": " \o issue.message

----------------------------------------------------------------------------
(* Properties of checkInstallation, under SpecInstall *)

\* C15: checkInstallation absorbs every cluster error: a 404 or any other
\* error on the custom-resource list call gives crdFound = false, any error
\* on the pod list call gives operatorRunning = false, and a result object
\* with installed set is returned in every case.
C15_ErrorsAbsorbed ==
    /\ ipc \in {"idle", "listing resources", "listing pods", "returning", "done"}
    /\ ipc = "done" =>
          /\ installation.returned
          /\ installation.installed \in BOOLEAN
          /\ ~crdCall.ok => ~installation.crdFound
          /\ ~podsCall.ok => ~installation.operatorRunning
          /\ (~crdCall.ok \/ ~podsCall.ok) => ~installation.installed

C15_Witness ==
    /\ ipc = "done"
    /\ ~crdCall.ok
    /\ crdCall.error.statusCode = Num(403)
    /\ crdCall.error.responseStatusCode = Undefined
    /\ ~podsCall.ok
    /\ installation.returned
    /\ ~installation.installed

\* C16: installed is true exactly when crdFound and operatorRunning are both
\* true, and operatorRunning is true exactly when the pod list call
\* succeeded and at least one listed pod has phase Running.
C16_InstalledIffBoth ==
    ipc = "done" =>
        /\ installation.installed <=> (installation.crdFound /\ installation.operatorRunning)
        /\ installation.operatorRunning <=>
              (podsCall.ok /\ \E i \in DOMAIN podsCall.items : podsCall.items[i] = Str("Running"))

C16_Witness ==
    /\ ipc = "done"
    /\ crdCall.ok
    /\ podsCall.ok
    /\ podsCall.items = <<Str("Pending"), Str("Running")>>
    /\ installation.installed


----------------------------------------------------------------------------
(* Further properties of parseStatus over cluster resources, under SpecParse *)

\* C21: for a resource with no status sub-object, with or without metadata
\* and spec, parseStatus returns a status with replicas.ready = 0,
\* replicas.available = 0, phase = "Pending" and an empty conditions list.
C21_NoStatusDefaults ==
    (Parsed /\ resource.status = EmptyStatus) =>
        /\ parsed.replicas.ready = Num(0)
        /\ parsed.replicas.available = Num(0)
        /\ parsed.phase = Str("Pending")
        /\ parsed.conditions = <<>>

C21_Witness ==
    /\ Parsed
    /\ resource.status = EmptyStatus
    /\ resource.metadata = EmptyMetadata
    /\ resource.spec = EmptyObj
    /\ parsed.replicas.ready = Num(0)
    /\ parsed.phase = Str("Pending")

\* the conditions list keeps the length and order of status.conditions and
\* reason, message and lastTransitionTime of every element
ConditionsCopied ==
    /\ Len(parsed.conditions) = Len(resource.status.conditions)
    /\ \A i \in DOMAIN parsed.conditions :
          /\ parsed.conditions[i].reason = resource.status.conditions[i].reason
          /\ parsed.conditions[i].message = resource.status.conditions[i].message
          /\ parsed.conditions[i].lastTransitionTime =
                 resource.status.conditions[i].lastTransitionTime

\* C22 as stated: element i carries the type, reason, message and
\* lastTransitionTime of source element i, and its status is the source's
\* status, or "Unknown" when the source omits it.
C22_ConditionsCopied_Original ==
    Parsed =>
        /\ ConditionsCopied
        /\ \A i \in DOMAIN parsed.conditions :
              /\ parsed.conditions[i].type = resource.status.conditions[i].type
              /\ parsed.conditions[i].status =
                     IF resource.status.conditions[i].status = Undefined
                     THEN Str("Unknown")
                     ELSE resource.status.conditions[i].status

\* C22 (amended): the conditions list has the length and order of
\* status.conditions; element i carries the reason, message and
\* lastTransitionTime of source element i, its type is the source's type, or
\* "" when the source omits it, and its status is the source's status, or
\* "Unknown" when the source omits it or holds the empty string.
C22_ConditionsCopied ==
    Parsed =>
        /\ ConditionsCopied
        /\ \A i \in DOMAIN parsed.conditions :
              /\ parsed.conditions[i].type =
                     IF resource.status.conditions[i].type \in {Undefined, Str("")}
                     THEN Str("")
                     ELSE resource.status.conditions[i].type
              /\ parsed.conditions[i].status =
                     IF resource.status.conditions[i].status \in {Undefined, Str("")}
                     THEN Str("Unknown")
                     ELSE resource.status.conditions[i].status

C22_Witness ==
    /\ Parsed
    /\ Len(resource.status.conditions) = 2
    /\ resource.status.conditions[1].type = Undefined
    /\ resource.status.conditions[1].status = Str("True")
    /\ resource.status.conditions[2].type = Str("Ready")
    /\ resource.status.conditions[2].status = Undefined
    /\ parsed.conditions[1].type = Str("")
    /\ parsed.conditions[1].status = Str("True")
    /\ parsed.conditions[2].status = Str("Unknown")

\* C26: for every resource classified as disaggregated, replicas.desired is
\* prefillReplicas.desired + decodeReplicas.desired of the same status.
C26_DesiredIsRoleSum ==
    (Parsed /\ parsed.mode = "disaggregated") =>
        /\ parsed.hasRoleReplicas
        /\ parsed.replicas.desired =
               Num(parsed.prefillReplicas.desired.n + parsed.decodeReplicas.desired.n)


----------------------------------------------------------------------------
(* Further properties of generateManifest, under SpecManifest *)

\* the worker spec of an aggregated manifest
AggregatedWorkerOf(m) == m.spec[CHOOSE k \in DOMAIN m.spec : k \in AggregatedKeys]

\* the worker spec w is sized with the given replicas and GPU limit
SizedAs(w, replicas, gpus) ==
    /\ Get(w, "replicas") = Num(replicas)
    /\ Get(w, "resources").t = "limits"
    /\ Get(w, "resources").n = gpus

\* every worker of the manifest carries the sizing the config gives it
OwnSizing ==
    /\ config.mode = "aggregated" =>
          LET w == AggregatedWorkerOf(manifest)
          IN IF config.resources.present
             THEN SizedAs(w, config.replicas, config.resources.gpu)
             ELSE Get(w, "replicas") = Num(config.replicas) /\ ~Has(w, "resources")
    /\ config.mode = "disaggregated" =>
          /\ SizedAs(PrefillWorkerOf(manifest), config.prefillReplicas, config.prefillGpus)
          /\ SizedAs(DecodeWorkerOf(manifest), config.decodeReplicas, config.decodeGpus)

\* C23 as stated: for every config the aggregated worker has replicas =
\* config.replicas and GPU limit = config.resources.gpu, and the prefill and
\* decode workers have their own replicas and GPU limit.
C23_OwnSizing_Original ==
    Generated => OwnSizing

\* C23 (amended): for every config whose engineArgs have no replicas and no
\* resources entry, the aggregated worker has replicas = config.replicas and
\* GPU limit = config.resources.gpu (no resources entry when the config has
\* no resources), and the prefill and decode workers have their own replicas
\* and GPU limit, each independent of the other worker's values.
C23_OwnSizing ==
    (Generated /\ ~Has(config.engineArgs, "replicas") /\ ~Has(config.engineArgs, "resources")) =>
        OwnSizing

C23_Witness ==
    /\ Generated
    /\ config.mode = "disaggregated"
    /\ config.engineArgs = EmptyObj
    /\ config.prefillReplicas = 2
    /\ config.decodeReplicas = 1
    /\ config.prefillGpus = 1
    /\ config.decodeGpus = 2
    /\ SizedAs(PrefillWorkerOf(manifest), 2, 1)
    /\ SizedAs(DecodeWorkerOf(manifest), 1, 2)

\* C24: for an aggregated config the Frontend has a router-mode key exactly
\* when config.routerMode is not "none", and its value is config.routerMode.
C24_AggregatedRouterMode ==
    (Generated /\ config.mode = "aggregated") =>
        /\ Has(manifest.spec["Frontend"], "router-mode") <=> (config.routerMode # "none")
        /\ config.routerMode # "none" =>
              manifest.spec["Frontend"]["router-mode"] = Str(config.routerMode)

C24_Witness ==
    /\ Generated
    /\ config.mode = "aggregated"
    /\ config.routerMode = "kv"
    /\ Get(manifest.spec["Frontend"], "router-mode") = Str("kv")


----------------------------------------------------------------------------
(* Further properties of GET /api/deployments, under SpecList *)

\* C25: in the unfiltered listing one listDeployments query is issued per
\* distinct provider default namespace, the response is built only after
\* all of them have completed, and the response depends on the cluster and
\* the query alone, not on the order in which the queries complete.
C25_FanOutAndJoin ==
    UnfilteredDone =>
        /\ \A n \in Namespaces : Cardinality({i \in DOMAIN queried : queried[i] = n}) = 1
        /\ \A i \in DOMAIN queried : queried[i] \in Namespaces
        /\ \A n \in Namespaces : results[n].state \in {"fulfilled", "rejected"}
        /\ response = IF \A n \in Namespaces : reachable[n]
                      THEN Paginate(SortByCreatedAt(AllDeployments), query.limit, query.offset)
                      ELSE ErrorBody


----------------------------------------------------------------------------
(* Further properties of POST /, under SpecCreate *)

\* C28: the status of the exception thrown for a failed createDeployment,
\* which is what getK8sErrorStatusCode returns for the error, is an HTTP
\* error status in 400..599 for every error.
C28_ErrorStatusRange ==
    (cpc = "done" /\ reply.kind = "create failed") =>
        /\ reply.status >= 400
        /\ reply.status < 600

\* the number of times call occurs in the log of cluster calls
Issued(call) == Cardinality({i \in DOMAIN calls : calls[i] = call})

\* C29: for a body that passed the checks, createDeployment is invoked
\* exactly once whether the GPU fit check fits, does not fit or throws; the
\* 201 response carries warnings only after a check that does not fit, and a
\* check that throws adds none.
C29_GpuCheckAdvisory ==
    (~Rejectable /\ cpc \in {"creating", "done"}) =>
        /\ gpuCheck \in GpuCheckSpace
        /\ Issued("createDeployment") = 1
        /\ (cpc = "done" /\ clientCall.ok) =>
              /\ reply.kind = "created"
              /\ reply.status = 201
              /\ reply.warnings => gpuCheck = "does not fit"
              /\ gpuCheck = "throws" => ~reply.warnings

C29_Witness ==
    /\ cpc = "done"
    /\ ~Rejectable
    /\ gpuCheck = "throws"
    /\ calls = <<"getClusterGpuCapacity", "createDeployment">>
    /\ reply.kind = "created"
    /\ reply.status = 201
    /\ ~reply.warnings

----------------------------------------------------------------------------
(* Properties of DeploymentForm, under SpecForm *)

\* C27: the form issues a create request only when the selected runtime is
\* installed and, for KAITO, the model or GGUF selection is valid: no
\* request is issued in a state where the submit button is disabled.
C27_SubmitOnlyWhenEnabled ==
    \A i \in DOMAIN requests :
        /\ requests[i].installed
        /\ requests[i].kaitoValid
        /\ ~requests[i].disabled

\* C30: config.routerMode differs from "none" only while the selected
\* runtime is dynamo.
C30_RouterModeOnlyForDynamo ==
    fpc # "idle" => (formConfig.routerMode # "none" => selectedRuntime = "dynamo")

\* a router mode was chosen under dynamo and the runtime was then switched away
C30_Witness ==
    /\ fpc = "mounted"
    /\ prevConfig.provider = "dynamo"
    /\ prevConfig.routerMode = "kv"
    /\ selectedRuntime = "kuberay"
    /\ formConfig.provider = "kuberay"
    /\ formConfig.routerMode = "none"

====
